---- MODULE Spec2Model ----
(***************************************************************************)
(* A model of frontend/prepare_data.py: the batch script that turns the    *)
(* facility CSV into analysis.json.                                        *)
(*                                                                         *)
(* Representation.                                                         *)
(*  - A Python string is a sequence of tokens (a "text"); the empty string *)
(*    is <<>>.  A token is a phrase written as a TLA+ string; the token    *)
(*    " " is leading or trailing white space.  `a + ' ' + b` and           *)
(*    ' '.join(list) are concatenation of token sequences.                 *)
(*  - `s in text` (substring search) holds when some token of the text     *)
(*    contains s; which signals a phrase contains is the table             *)
(*    SubstringsOf, written from the real strings.                         *)
(*  - An optional value (Python None or a value) is <<>> or <<v>>.         *)
(*  - A finding is [question, answer, confidence, flag]; a key the code    *)
(*    leaves out of the dict ('flag') is NoFlag.  Formatted strings are    *)
(*    [text, nums, items]: the template, the numbers and the strings       *)
(*    interpolated into it.                                                *)
(*  - Coordinates are in thousandths of a degree.                          *)
(***************************************************************************)
EXTENDS Integers, Sequences, FiniteSets, TLC

None == <<>>
Some(v) == <<v>>
\* Python truthiness of an optional int: None and 0 are falsy.
Truthy(o) == o # None /\ o[1] # 0

NoFlag == "none"

Fmt(text, nums, items) == [text |-> text, nums |-> nums, items |-> items]

Min(a, b) == IF a < b THEN a ELSE b

\* Python's a // b on ints: the floor of the quotient, ZeroDivisionError
\* when b is 0.
FloorDiv(a, b) ==
    IF b = 0 THEN [raised |-> TRUE, value |-> 0]
    ELSE [raised |-> FALSE,
          value |-> IF b > 0 THEN a \div b ELSE (0 - a) \div (0 - b)]

Range(s) == {s[i] : i \in DOMAIN s}

Take(s, n) == SubSeq(s, 1, Min(n, Len(s)))

RECURSIVE Flatten(_)
Flatten(ss) == IF ss = <<>> THEN <<>> ELSE Head(ss) \o Flatten(Tail(ss))

RECURSIVE SumSeq(_)
SumSeq(s) == IF s = <<>> THEN 0 ELSE Head(s) + SumSeq(Tail(s))

\* [camel_to_readable(s) for s in ...] is Readable, defined with camel_to_readable.

(***************************************************************************)
(* Strings: str.lower, str.strip and substring search, on tokens.          *)
(***************************************************************************)
LowerTok(t) ==
    CASE t = "NGO" -> "ngo"
      [] t = "NULL" -> "null"
      [] t = "ICU" -> "icu"
      [] t = "MRI" -> "mri"
      [] t = "ECG" -> "ecg"
      [] t = "CT scan" -> "ct scan"
      [] t = "X-ray" -> "x-ray"
      [] t = "C-arm" -> "c-arm"
      [] t = "dental X-ray" -> "dental x-ray"
      [] t = "Health Centre" -> "health centre"
      [] t = "Specialist Hospital" -> "specialist hospital"
      [] t = "Ultrasound" -> "ultrasound"
      [] t = "Foundation" -> "foundation"
      [] t = "Le Mete" -> "le mete"
      [] t = "Accra" -> "accra"
      [] t = "Tamale" -> "tamale"
      [] t = "Northern" -> "northern"
      [] t = "Greater Accra" -> "greater accra"
      [] t = "Regional Hospital" -> "regional hospital"
      [] t = "Outreach camp" -> "outreach camp"
      [] OTHER -> t

lower(text) == [i \in DOMAIN text |-> LowerTok(text[i])]

\* The signals (lower-case search strings of the analysers) that occur inside
\* a lower-case phrase, besides the phrase itself.
SubstringsOf(t) ==
    {t} \cup
    (CASE t = "24/7" -> {"24"}
       [] t = "24 hours" -> {"24"}
       [] t = "emergency department" -> {"emergency"}
       [] t = "outreach camp" -> {"outreach", "camp"}
       [] t = "medical mission" -> {"mission"}
       [] t = "visiting consultant" -> {"visiting", "consultant"}
       [] t = "referral" -> {"refer"}
       [] t = "paid" -> {"aid"}
       [] t = "dental x-ray" -> {"x-ray"}
       [] t = "health insurance" -> {"insurance"}
       [] OTHER -> {})

\* Python's `s in text`.
Contains(s, text) == \E i \in DOMAIN text : s \in SubstringsOf(text[i])

IsSpace(t) == t = " "

RECURSIVE LStrip(_)
LStrip(text) ==
    IF text # <<>> /\ IsSpace(Head(text)) THEN LStrip(Tail(text)) ELSE text

RECURSIVE RStrip(_)
RStrip(text) ==
    IF text # <<>> /\ IsSpace(text[Len(text)])
    THEN RStrip(SubSeq(text, 1, Len(text) - 1))
    ELSE text

\* str.strip() of a text.
strip(text) == LStrip(RStrip(text))

\* str.strip() of the string of one list item.
StripTok(t) ==
    CASE t = " " -> ""
      [] t = " cardiology " -> "cardiology"
      [] t = " ICU " -> "ICU"
      [] OTHER -> t

\* [str(v).strip() for v in items]
StripAll(items) == [i \in DOMAIN items |-> StripTok(items[i])]

\* int() of a cleaned numeric cell.
IntOf(t) ==
    CASE t = "0" -> 0
      [] t = "-3" -> 0 - 3
      [] t = "1" -> 1
      [] t = "4" -> 4
      [] t = "12" -> 12
      [] t = "30" -> 30
      [] t = "49" -> 49
      [] t = "50" -> 50
      [] t = "100" -> 100
      [] t = "120" -> 120

(***************************************************************************)
(* parse_json_field, clean, camel_to_readable                              *)
(***************************************************************************)
\* A raw list cell is [form, items]: what the cell's text is
\* ("empty", "null", "brackets" for '[]', "json_list", "json_scalar",
\* "malformed") and the elements it lists.
parse_json_field(raw) ==
    IF raw.form \in {"empty", "null", "brackets"} THEN <<>>
    ELSE IF raw.form = "json_list"
    THEN StripAll(SelectSeq(raw.items, LAMBDA v : v # "" /\ StripTok(v) # ""))
    ELSE IF raw.form = "json_scalar" THEN <<raw.items[1]>>
    ELSE StripAll(SelectSeq(raw.items, LAMBDA v : StripTok(v) # ""))

clean(v) ==
    IF v = <<>> \/ lower(strip(v)) = <<"null">> THEN <<>> ELSE strip(v)

camel_to_readable(s) ==
    CASE s = "neurosurgery" -> "Neurosurgery"
      [] s = "cardiology" -> "Cardiology"
      [] s = "cardiacSurgery" -> "Cardiac Surgery"
      [] s = "ophthalmology" -> "Ophthalmology"
      [] s = "radiology" -> "Radiology"
      [] s = "orthopedicSurgery" -> "Orthopedic Surgery"
      [] s = "nephrology" -> "Nephrology"
      [] s = "generalSurgery" -> "General Surgery"
      [] s = "gynecologyAndObstetrics" -> "Gynecology & Obstetrics"
      [] s = "pediatrics" -> "Pediatrics"
      [] s = "emergencyMedicine" -> "Emergency Medicine"
      [] s = "dentistry" -> "Dentistry"
      [] s = "psychiatry" -> "Psychiatry"
      [] s = "plasticSurgery" -> "Plastic Surgery"
      [] s = "urology" -> "Urology"
      [] s = "oncology" -> "Oncology"
      [] s = "neonatology" -> "Neonatology"
      [] s = "neurology" -> "Neurology"
      [] s = "internalMedicine" -> "Internal Medicine"
      [] s = "familyMedicine" -> "Family Medicine"
      [] s = "ICU" -> "I C U"
      [] OTHER -> s

Readable(specs) == [i \in DOMAIN specs |-> camel_to_readable(specs[i])]

(***************************************************************************)
(* Module-level tables                                                     *)
(***************************************************************************)
SPECIALTY_EQUIPMENT_REQUIREMENTS ==
    [s \in {"neurosurgery", "cardiology", "cardiacSurgery", "ophthalmology",
            "radiology", "orthopedicSurgery", "nephrology", "generalSurgery",
            "gynecologyAndObstetrics", "pediatrics", "emergencyMedicine",
            "dentistry", "psychiatry"} |->
      CASE s = "neurosurgery" ->
               <<"operating microscope", "CT scan", "MRI", "ICU", "ventilator">>
        [] s = "cardiology" ->
               <<"ECG", "echocardiograph", "defibrillator", "cardiac monitor">>
        [] s = "cardiacSurgery" ->
               <<"heart-lung machine", "operating theatre", "ICU", "ventilator", "blood bank">>
        [] s = "ophthalmology" ->
               <<"slit lamp", "operating microscope", "tonometer", "fundoscope">>
        [] s = "radiology" -> <<"X-ray", "ultrasound", "CT scan">>
        [] s = "orthopedicSurgery" -> <<"X-ray", "operating theatre", "C-arm">>
        [] s = "nephrology" -> <<"dialysis machine", "ultrasound">>
        [] s = "generalSurgery" ->
               <<"operating theatre", "anaesthesia machine", "sterilizer", "blood bank">>
        [] s = "gynecologyAndObstetrics" ->
               <<"ultrasound", "fetal monitor", "delivery suite", "operating theatre">>
        [] s = "pediatrics" -> <<"neonatal unit", "incubator", "pediatric ward">>
        [] s = "emergencyMedicine" ->
               <<"emergency department", "defibrillator", "ventilator", "trauma kit">>
        [] s = "dentistry" -> <<"dental chair", "dental X-ray", "autoclave">>
        [] s = "psychiatry" -> <<"counselling room", "inpatient ward">>]

COMPLEX_PROCEDURES ==
    {"neurosurgery", "cardiacSurgery", "plasticSurgery", "hepatobiliarySurgery",
     "spineNeurosurgery", "transplantSurgery", "interventionalRadiology"}

MODERATE_PROCEDURES ==
    {"generalSurgery", "orthopedicSurgery", "gynecologyAndObstetrics",
     "ophthalmology", "urology"}

(***************************************************************************)
(* extract_facility                                                        *)
(***************************************************************************)
extract_facility(row, row_idx) ==
    [name |-> clean(row.name),
     city |-> clean(row.address_city),
     region |-> clean(row.address_stateOrRegion),
     address |-> clean(row.address_line1),
     facilityType |-> clean(row.facilityTypeId),
     operatorType |-> clean(row.operatorTypeId),
     specialties |-> parse_json_field(row.specialties),
     procedures |-> parse_json_field(row.procedure),
     equipment |-> parse_json_field(row.equipment),
     capabilities |-> parse_json_field(row.capability),
     description |-> clean(row.description),
     orgDescription |-> clean(row.organizationDescription),
     numDoctors |-> IF clean(row.numberDoctors) # <<>>
                    THEN Some(IntOf(clean(row.numberDoctors)[1])) ELSE None,
     bedCapacity |-> IF clean(row.capacity) # <<>>
                     THEN Some(IntOf(clean(row.capacity)[1])) ELSE None,
     sourceUrl |-> clean(row.source_url),
     websites |-> parse_json_field(row.websites),
     phone |-> parse_json_field(row.phone_numbers),
     csvRow |-> row_idx + 2]

(***************************************************************************)
(* Analysis generators per question category (facilities)                  *)
(***************************************************************************)
Finding(question, answer, confidence, flag) ==
    [question |-> question, answer |-> answer, confidence |-> confidence, flag |-> flag]

\* findings.append(...) under a condition.
When(cond, finding) == IF cond THEN <<finding>> ELSE <<>>

\* ' '.join(capabilities).lower() + ' ' + description.lower() + ' ' + orgDescription.lower()
CapDescText(f) == lower(f.capabilities) \o lower(f.description) \o lower(f.orgDescription)

analyze_basic_lookups(f, all_facilities_in_region) ==
    LET n == Len(f.specialties)
        region == IF f.region # <<>> THEN f.region ELSE f.city
        count == Len(all_facilities_in_region)
        hospitals == Len(SelectSeq(all_facilities_in_region,
                                   LAMBDA r : clean(r.facilityTypeId) = <<"hospital">>))
    IN  When(f.specialties # <<>>,
             Finding(Fmt("Q1.1: What specialties does this facility offer?", <<>>, <<>>),
                     Fmt(IF n > 10 THEN "This facility reports {} specialties: {} and {} more."
                                   ELSE "This facility reports {} specialties: {}.",
                         IF n > 10 THEN <<n, n - 10>> ELSE <<n>>,
                         Readable(Take(f.specialties, 10))),
                     "high", NoFlag))
        \o
        When(region # <<>> /\ all_facilities_in_region # <<>>,
             Finding(Fmt("Q1.5: How does {} compare?", <<>>, region),
                     Fmt(IF count > 20 THEN "is one of the most served regions"
                         ELSE IF count > 5 THEN "has moderate coverage"
                         ELSE "has limited healthcare infrastructure",
                         <<count, hospitals>>, region),
                     "high", NoFlag))

analyze_validation(f) ==
    LET cap_text == lower(f.capabilities)
        equip_text == lower(f.equipment)
        desc_text == lower(f.description \o f.orgDescription)
        all_text == cap_text \o equip_text \o desc_text
        required(spec) == SPECIALTY_EQUIPMENT_REQUIREMENTS[spec]
        found(spec) == SelectSeq(required(spec), LAMBDA eq : Contains(LowerTok(eq), all_text))
        missing(spec) == SelectSeq(required(spec), LAMBDA eq : ~Contains(LowerTok(eq), all_text))
        q31(spec) ==
            IF spec \in DOMAIN SPECIALTY_EQUIPMENT_REQUIREMENTS
               /\ missing(spec) # <<>> /\ Len(missing(spec)) > Len(found(spec))
            THEN <<Finding(Fmt("Q3.1: Does this facility have equipment for {}?", <<>>,
                               <<camel_to_readable(spec)>>),
                           Fmt(IF found(spec) # <<>>
                               THEN "Claims {} but no mention of: {}. Only evidence of: {}."
                               ELSE "Claims {} but no mention of: {}. No supporting equipment evidence found in unstructured text.",
                               <<>>,
                               <<camel_to_readable(spec)>> \o missing(spec) \o found(spec)),
                           "medium", "warning")>>
            ELSE <<>>
    IN  Flatten([i \in DOMAIN f.specialties |-> q31(f.specialties[i])])
        \o
        When(f.specialties # <<>> /\ f.equipment = <<>>,
             Finding(Fmt("Q3.4: Is equipment data available to verify procedure claims?", <<>>, <<>>),
                     Fmt("Facility claims {} specialties but has NO structured equipment data.",
                         <<Len(f.specialties)>>, <<>>),
                     "low", "warning"))

\* An exception leaving an analyser instead of its list of findings.
Raised(e) == <<[question |-> Fmt(e, <<>>, <<>>), answer |-> Fmt(e, <<>>, <<>>),
               confidence |-> "raised", flag |-> "raised"]>>

IsRaised(findings) == findings # <<>> /\ findings[1].flag = "raised"

\* A Q4.4 rule that takes any reported bed capacity, 0 included, as a size.
Q4_4_is_not_none(f) ==
    LET n == Len(f.specialties)
        beds == f.bedCapacity
    IN  IF beds # None /\ beds[1] < 50 /\ n > 10
        THEN <<Finding(Fmt("Q4.4: Are the claimed procedures realistic for this facility size?", <<>>, <<>>),
                       Fmt("RED FLAG: Facility claims {} specialties with only {} beds.",
                           <<n, beds[1]>>, Readable(Take(f.specialties, 5))),
                       "high", "alert")>>
        ELSE IF beds = None /\ n > 15
        THEN <<Finding(Fmt("Q4.4: Are the claimed procedures realistic for this facility size?", <<>>, <<>>),
                       Fmt("CAUTION: Facility claims {} specialties but reports no bed capacity.",
                           <<n>>, <<>>),
                       "medium", "warning")>>
        ELSE <<>>

\* Q4.4: Unrealistic procedure count for size (the if / elif of analyze_anomalies).
Q4_4(f) ==
    LET n == Len(f.specialties)
        beds == f.bedCapacity
    IN  IF Truthy(beds) /\ beds[1] < 50 /\ n > 10
        THEN <<Finding(Fmt("Q4.4: Are the claimed procedures realistic for this facility size?", <<>>, <<>>),
                       Fmt("RED FLAG: Facility claims {} specialties with only {} beds.",
                           <<n, beds[1]>>, Readable(Take(f.specialties, 5))),
                       "high", "alert")>>
        ELSE IF ~Truthy(beds) /\ n > 15
        THEN <<Finding(Fmt("Q4.4: Are the claimed procedures realistic for this facility size?", <<>>, <<>>),
                       Fmt("CAUTION: Facility claims {} specialties but reports no bed capacity.",
                           <<n>>, <<>>),
                       "medium", "warning")>>
        ELSE <<>>

\* The findings of analyze_anomalies before its 'No issues found' step.
Q4Findings(f) ==
    LET complex_claimed == SelectSeq(f.specialties, LAMBDA s : s \in COMPLEX_PROCEDURES)
        moderate_claimed == SelectSeq(f.specialties, LAMBDA s : s \in MODERATE_PROCEDURES)
        all_text == CapDescText(f)
        beds == f.bedCapacity
        q47 == When(Truthy(beds) /\ beds[1] >= 100 /\ ~Truthy(f.numDoctors),
                    Finding(Fmt("Q4.7: Do facility characteristics correlate as expected?", <<>>, <<>>),
                            Fmt("Facility reports {} beds but no doctor count.", beds \o beds, <<>>),
                            "medium", "warning"))
        q48 == When(complex_claimed # <<>> /\ f.equipment = <<>>,
                    Finding(Fmt("Q4.8: Is the breadth of procedures supported by infrastructure?", <<>>, <<>>),
                            Fmt("Claims advanced specialties ({}) but lists NO equipment.", <<>>,
                                Readable(complex_claimed)),
                            "high", "alert"))
        has_24hr == Contains("24", all_text) \/ Contains("emergency", all_text)
        q49 == When(complex_claimed # <<>> /\ ~has_24hr,
                    Finding(Fmt("Q4.9: Are there contradictory signals?", <<>>, <<>>),
                            Fmt("Claims complex specialties ({}) but no mention of 24-hour or emergency services.",
                                <<>>, Readable(Take(complex_claimed, 3))),
                            "medium", "warning"))
    IN  Q4_4(f) \o q47 \o q48 \o q49

Q4Summary ==
    Finding(Fmt("Q4: Anomaly Detection Summary", <<>>, <<>>),
            Fmt("No significant anomalies detected.", <<>>, <<>>),
            "medium", "ok")

\* An analyze_anomalies that appends the summary whatever was found.
analyze_anomalies_always_summary(f) == Q4Findings(f) \o <<Q4Summary>>

analyze_anomalies(f) ==
    LET findings == Q4Findings(f)
    IN  IF findings = <<>> THEN <<Q4Summary>> ELSE findings

analyze_service_classification(f) ==
    LET all_text == CapDescText(f)
        itinerant_signals == <<"visiting", "camp", "outreach", "mission", "periodic",
                               "twice a year", "annual", "quarterly">>
        permanent_signals == <<"24/7", "24 hours", "permanent", "full-time", "daily">>
        found_itinerant == SelectSeq(itinerant_signals, LAMBDA s : Contains(s, all_text))
        found_permanent == SelectSeq(permanent_signals, LAMBDA s : Contains(s, all_text))
        referral_signals == <<"refer", "arrange", "collaborate", "send to", "partner", "transfer">>
        found_referral == SelectSeq(referral_signals, LAMBDA s : Contains(s, all_text))
        q51 == IF found_itinerant # <<>>
               THEN <<Finding(Fmt("Q5.1: Are services permanent or itinerant?", <<>>, <<>>),
                              Fmt(IF found_permanent # <<>>
                                  THEN "ITINERANT SIGNALS DETECTED: {}. However, also found permanent signals: {}."
                                  ELSE "ITINERANT SIGNALS DETECTED: {}.",
                                  <<>>, found_itinerant \o found_permanent),
                              "medium", "warning")>>
               ELSE IF found_permanent # <<>>
               THEN <<Finding(Fmt("Q5.1: Are services permanent or itinerant?", <<>>, <<>>),
                              Fmt("Services appear to be permanently staffed. Indicators: {}.",
                                  <<>>, found_permanent),
                              "medium", "ok")>>
               ELSE <<>>
    IN  q51 \o
        When(found_referral # <<>>,
             Finding(Fmt("Q5.2: Does the facility perform procedures or refer them?", <<>>, <<>>),
                     Fmt("Referral language detected: {}.", <<>>, found_referral),
                     "medium", "warning"))

\* A Q6.1 rule that tests the doctor count against None and guards the
\* ratio by the bed capacity alone.
Q6_1_is_not_none(f) ==
    LET docs == f.numDoctors
        beds == f.bedCapacity
        ratio == FloorDiv(beds[1], docs[1])
    IN  IF docs # None
        THEN IF Truthy(beds)
             THEN IF ratio.raised THEN Raised("ZeroDivisionError")
                  ELSE <<Finding(Fmt("Q6.1: What is the known workforce at this facility?", <<>>, <<>>),
                                 Fmt("Facility reports {} doctors. For {} beds, this is a doctor-to-bed ratio of 1:{}.",
                                     <<docs[1], beds[1], ratio.value>>, <<>>),
                                 "high", NoFlag)>>
             ELSE <<Finding(Fmt("Q6.1: What is the known workforce at this facility?", <<>>, <<>>),
                            Fmt("Facility reports {} doctors.", <<docs[1]>>, <<>>),
                            "high", NoFlag)>>
        ELSE <<Finding(Fmt("Q6.1: What is the known workforce at this facility?", <<>>, <<>>),
                       Fmt("No doctor count reported.", <<>>, <<>>),
                       "low", "warning")>>

\* Q6.1: Workforce presence (the if / else of analyze_workforce).  The
\* division is evaluated only in the branch that formats the ratio.
Q6_1(f) ==
    LET docs == f.numDoctors
        beds == f.bedCapacity
        ratio == FloorDiv(beds[1], docs[1])
    IN  IF Truthy(docs)
        THEN IF Truthy(beds) /\ docs[1] > 0
             THEN IF ratio.raised THEN Raised("ZeroDivisionError")
                  ELSE <<Finding(Fmt("Q6.1: What is the known workforce at this facility?", <<>>, <<>>),
                                 Fmt("Facility reports {} doctors. For {} beds, this is a doctor-to-bed ratio of 1:{}.",
                                     <<docs[1], beds[1], ratio.value>>, <<>>),
                                 "high", NoFlag)>>
             ELSE <<Finding(Fmt("Q6.1: What is the known workforce at this facility?", <<>>, <<>>),
                            Fmt("Facility reports {} doctors.", <<docs[1]>>, <<>>),
                            "high", NoFlag)>>
        ELSE <<Finding(Fmt("Q6.1: What is the known workforce at this facility?", <<>>, <<>>),
                       Fmt("No doctor count reported.", <<>>, <<>>),
                       "low", "warning")>>

analyze_workforce(f) ==
    LET all_text == CapDescText(f)
        visiting_signals == <<"visiting", "consultant", "locum", "part-time">>
        found_visiting == SelectSeq(visiting_signals, LAMBDA s : Contains(s, all_text))
        q61 == Q6_1(f)
    IN  IF IsRaised(q61) THEN q61
        ELSE q61 \o
             When(found_visiting # <<>>,
                  Finding(Fmt("Q6.4: Is there evidence of visiting vs permanent specialists?", <<>>, <<>>),
                          Fmt("Visiting specialist signals detected: {}.", <<>>, found_visiting),
                          "medium", "warning"))

analyze_resource_gaps(f, all_rows_in_region) ==
    LET specsOf(r) == parse_json_field(r.specialties)
        \* region_specs.get(s, 0)
        region_specs(s) ==
            SumSeq([i \in DOMAIN all_rows_in_region |->
                      Len(SelectSeq(specsOf(all_rows_in_region[i]), LAMBDA x : x = s))])
        sole_provider == SelectSeq(f.specialties, LAMBDA s : region_specs(s) <= 2)
    IN  When(f.specialties # <<>> /\ sole_provider # <<>>,
             Finding(Fmt("Q7.5: Are any procedures dependent on very few facilities?", <<>>, <<>>),
                     Fmt("This facility is one of very few in its region providing: {}.",
                         <<>>, Readable(Take(sole_provider, 5))),
                     "high", "alert"))

analyze_ngo(f) ==
    LET all_text == CapDescText(f)
        org_type == clean(f.operatorType)
        ngo_signals == <<"ngo", "foundation", "charity", "mission", "non-profit",
                         "nonprofit", "volunteer", "international", "aid">>
        found_ngo == SelectSeq(ngo_signals,
                               LAMBDA s : Contains(s, all_text) \/ Contains(s, lower(f.name)))
    IN  When(found_ngo # <<>> \/ org_type \in {<<"ngo">>, <<"charity">>, <<"mission">>},
             Finding(Fmt("Q8.1: Is this an NGO-operated facility?", <<>>, <<>>),
                     Fmt("NGO/mission signals detected: {}.", <<>>, Take(found_ngo, 3)),
                     "medium", NoFlag))

(***************************************************************************)
(* Desert analysis generators                                              *)
(***************************************************************************)
\* Largest r with r * r <= n, for n >= 0 (math.sqrt, truncated).
RECURSIVE IsqrtIn(_, _, _)
IsqrtIn(n, lo, hi) ==
    IF lo >= hi THEN lo
    ELSE LET mid == (lo + hi + 1) \div 2
         IN  IF mid * mid <= n THEN IsqrtIn(n, mid, hi) ELSE IsqrtIn(n, lo, mid - 1)

Isqrt(n) == IsqrtIn(n, 0, 30000)

\* (fac.lat - d.lat)**2 + (fac.lng - d.lng)**2, in thousandths of a degree squared.
Dist2(fac, d) ==
    (fac.lat - d.lat) * (fac.lat - d.lat) + (fac.lng - d.lng) * (fac.lng - d.lng)

\* dist = math.sqrt(...) * 111, rounded to whole km as f"{dist:.0f}" prints it.
DistKm(fac, d) == (Isqrt(Dist2(fac, d)) * 111 + 500) \div 1000

\* dist < 100, that is sqrt(Dist2) * 111 / 1000 < 100: Dist2 * 111^2 < 10^10.
Within100km(fac, d) == Dist2(fac, d) <= 811622

\* closest.sort(): ascending distance (selection sort, first minimum first).
RECURSIVE SortClosest(_)
SortClosest(s) ==
    IF s = <<>> THEN <<>>
    ELSE LET m == CHOOSE i \in DOMAIN s :
                     /\ \A k \in DOMAIN s : s[i].dist2 <= s[k].dist2
                     /\ \A k \in 1..(i - 1) : s[k].dist2 > s[i].dist2
         IN  <<s[m]>> \o SortClosest(SubSeq(s, 1, m - 1) \o SubSeq(s, m + 1, Len(s)))

analyze_desert_geospatial(d, all_facilities) ==
    LET closest == SortClosest([i \in DOMAIN all_facilities |->
                       [dist2 |-> Dist2(all_facilities[i], d),
                        km |-> DistKm(all_facilities[i], d),
                        name |-> all_facilities[i].name,
                        nspecs |-> Len(all_facilities[i].specialties)]])
        top3 == Take(closest, 3)
    IN  <<Finding(Fmt("Q2.3: Is {} a geographic cold spot?", <<>>, <<d.name>>),
                  Fmt(IF d.nearestDistance_km > 0
                      THEN "{} in {} is a confirmed healthcare cold spot. The nearest facility is {}, {}km away. Population {} has no access to: {}."
                      ELSE "{} in {} is a confirmed healthcare cold spot. The nearest facility is {}, but it has severe capacity limitations. Population {} has no access to: {}.",
                      IF d.nearestDistance_km > 0
                      THEN <<d.nearestDistance_km, d.population>> ELSE <<d.population>>,
                      <<d.name, d.region, d.nearestFacility>>
                          \o Readable(Take(d.missingSpecialties, 4))),
                  "high", "alert")>>
        \o
        When(closest # <<>>,
             Finding(Fmt("Q2.1: What are the nearest facilities in the dataset?", <<>>, <<>>),
                     Fmt("{} - {}km ({} specialties)",
                         Flatten([i \in DOMAIN top3 |-> <<top3[i].km, top3[i].nspecs>>]),
                         Flatten([i \in DOMAIN top3 |-> top3[i].name])),
                     "high", NoFlag))

analyze_desert_unmet_needs(d) ==
    <<Finding(Fmt("Q9.5: Does {} have capacity for its population?", <<>>, <<d.name>>),
              Fmt(IF d.nearestDistance_km > 0
                  THEN "Population {} with nearest hospital {}km away. Missing {} critical specialties."
                  ELSE "Population {} with severely under-resourced local facility. Missing {} critical specialties.",
                  IF d.nearestDistance_km > 0
                  THEN <<d.population, d.nearestDistance_km, Len(d.missingSpecialties)>>
                  ELSE <<d.population, Len(d.missingSpecialties)>>,
                  <<>>),
              "high", "alert")>>

\* An NGO-gap analysis that flags its second finding as a warning.
analyze_desert_ngo_gaps_warning(d, all_facilities) ==
    LET isNgo(fac) ==
            \E s \in {"ngo", "foundation", "mission", "volunteer"} :
                Contains(s, lower(fac.capabilities)) \/ Contains(s, lower(fac.name))
        ngo_nearby == \E i \in DOMAIN all_facilities :
                          Within100km(all_facilities[i], d) /\ isNgo(all_facilities[i])
    IN  IF ~ngo_nearby
        THEN <<Finding(Fmt("Q8.3: Are there NGOs working in this area despite evident need?", <<>>, <<>>),
                       Fmt("No NGO or international organization presence detected within 100km of {}. Population {}.",
                           <<d.population>>, <<d.name>>),
                       "medium", "alert")>>
        ELSE <<Finding(Fmt("Q8.3: Are there NGOs working in this area?", <<>>, <<>>),
                       Fmt("At least one NGO/mission-affiliated facility exists within 100km. Population {}.",
                           <<d.population>>, <<>>),
                       "medium", "warning")>>

analyze_desert_ngo_gaps(d, all_facilities) ==
    LET isNgo(fac) ==
            LET all_text == lower(fac.capabilities)
            IN  \E s \in {"ngo", "foundation", "mission", "volunteer"} :
                    Contains(s, all_text) \/ Contains(s, lower(fac.name))
        ngo_nearby == \E i \in DOMAIN all_facilities :
                          Within100km(all_facilities[i], d) /\ isNgo(all_facilities[i])
    IN  IF ~ngo_nearby
        THEN <<Finding(Fmt("Q8.3: Are there NGOs working in this area despite evident need?", <<>>, <<>>),
                       Fmt("No NGO or international organization presence detected within 100km of {}. Population {}.",
                           <<d.population>>, <<d.name>>),
                       "medium", "alert")>>
        ELSE <<Finding(Fmt("Q8.3: Are there NGOs working in this area?", <<>>, <<>>),
                       Fmt("At least one NGO/mission-affiliated facility exists within 100km. Population {}.",
                           <<d.population>>, <<>>),
                       "medium", NoFlag)>>

generate_desert_recommendations(d) ==
    LET miss == Range(d.missingSpecialties)
    IN  (IF d.nearestDistance_km > 80
         THEN <<"Deploy mobile health clinics for emergency triage and stabilization">>
         ELSE <<>>)
        \o <<"Establish telemedicine link to nearest specialist hospital for remote consultation">>
        \o (IF "generalSurgery" \in miss
            THEN <<"Prioritize surgical capacity">> ELSE <<>>)
        \o (IF "gynecologyAndObstetrics" \in miss \/ "pediatrics" \in miss
            THEN <<"Urgent need for maternal and child health services">> ELSE <<>>)
        \o (IF "emergencyMedicine" \in miss
            THEN <<"Establish 24/7 emergency stabilization point to reduce transfer mortality">>
            ELSE <<>>)
        \o (IF "ophthalmology" \in miss
            THEN <<"Schedule periodic ophthalmology outreach camps">> ELSE <<>>)
        \o <<"Recruit and train community health workers for early detection and referral pathways">>

\* A severity whose distance thresholds are inclusive.
SeverityInclusive(d) ==
    LET s1 == 2 + (IF d.nearestDistance_km >= 100 THEN 3
                   ELSE IF d.nearestDistance_km >= 50 THEN 2
                   ELSE IF d.nearestDistance_km >= 0 THEN 1
                   ELSE 0)
        s2 == s1 + Min(Len(d.missingSpecialties), 3)
        s3 == s2 + (IF d.population > 40000 THEN 2
                    ELSE IF d.population > 20000 THEN 1
                    ELSE 0)
    IN  Min(10, s3)

\* main: "Calculate severity".
Severity(d) ==
    LET s1 == 2 + (IF d.nearestDistance_km > 100 THEN 3
                   ELSE IF d.nearestDistance_km > 50 THEN 2
                   ELSE IF d.nearestDistance_km > 0 THEN 1
                   ELSE 0)
        s2 == s1 + Min(Len(d.missingSpecialties), 3)
        s3 == s2 + (IF d.population > 40000 THEN 2
                    ELSE IF d.population > 20000 THEN 1
                    ELSE 0)
    IN  Min(10, s3)

(***************************************************************************)
(* Facility selections and desert zones                                    *)
(***************************************************************************)
\* <<row_idx, lat, lng>>
FACILITY_SELECTIONS ==
    <<
      <<368, 5556, (0 - 197)>>,
      <<388, 5578, (0 - 211)>>,
      <<189, 5638, (0 - 235)>>,
      <<515, 5581, (0 - 104)>>,
      <<461, 6295, 50>>,
      <<511, 9408, (0 - 839)>>,
      <<133, 7094, (0 - 2028)>>,
      <<58, 6120, 800>>,
      <<125, 7335, (0 - 2327)>>,
      <<756, 6950, (0 - 2083)>>
    >>

DESERT_ZONES ==
    <<
      [name |-> "Bole District", lat |-> 9033, lng |-> (0 - 2483), region |-> "Savannah Region",
       population |-> 61593, nearestFacility |-> "Tamale Teaching Hospital", nearestDistance_km |-> 148,
       missingSpecialties |-> <<"neurosurgery", "cardiology", "nephrology", "oncology", "neonatology">>,
       context |-> "Bole District: context"],
      [name |-> "Damongo", lat |-> 9083, lng |-> (0 - 1817), region |-> "Savannah Region",
       population |-> 38000, nearestFacility |-> "Tamale Teaching Hospital", nearestDistance_km |-> 95,
       missingSpecialties |-> <<"generalSurgery", "orthopedicSurgery", "ophthalmology", "radiology", "emergencyMedicine">>,
       context |-> "Damongo: context"],
      [name |-> "Nalerigu", lat |-> 10525, lng |-> (0 - 370), region |-> "North East Region",
       population |-> 28000, nearestFacility |-> "Baptist Medical Centre Nalerigu", nearestDistance_km |-> 0,
       missingSpecialties |-> <<"neurosurgery", "cardiology", "oncology", "nephrology", "psychiatry">>,
       context |-> "Nalerigu: context"],
      [name |-> "Nandom", lat |-> 10850, lng |-> (0 - 2750), region |-> "Upper West Region",
       population |-> 48000, nearestFacility |-> "Nandom District Hospital", nearestDistance_km |-> 0,
       missingSpecialties |-> <<"generalSurgery", "orthopedicSurgery", "ophthalmology", "pediatrics", "radiology">>,
       context |-> "Nandom: context"],
      [name |-> "Dambai", lat |-> 8067, lng |-> 183, region |-> "Oti Region",
       population |-> 35000, nearestFacility |-> "Nkwanta District Hospital", nearestDistance_km |-> 72,
       missingSpecialties |-> <<"generalSurgery", "emergencyMedicine", "gynecologyAndObstetrics", "pediatrics", "radiology">>,
       context |-> "Dambai: context"],
      [name |-> "Kadjebi", lat |-> 7533, lng |-> 533, region |-> "Oti Region",
       population |-> 46000, nearestFacility |-> "Kadjebi Health Centre", nearestDistance_km |-> 85,
       missingSpecialties |-> <<"generalSurgery", "emergencyMedicine", "ophthalmology", "dentistry", "radiology">>,
       context |-> "Kadjebi: context"],
      [name |-> "Donkorkrom", lat |-> 6633, lng |-> (0 - 133), region |-> "Eastern Region",
       population |-> 31000, nearestFacility |-> "Atua Government Hospital", nearestDistance_km |-> 65,
       missingSpecialties |-> <<"generalSurgery", "pediatrics", "ophthalmology", "radiology", "emergencyMedicine">>,
       context |-> "Donkorkrom: context"],
      [name |-> "Enchi", lat |-> 5833, lng |-> (0 - 2833), region |-> "Western North Region",
       population |-> 42000, nearestFacility |-> "Enchi District Hospital", nearestDistance_km |-> 0,
       missingSpecialties |-> <<"neurology", "cardiology", "orthopedicSurgery", "ophthalmology", "radiology">>,
       context |-> "Enchi: context"],
      [name |-> "Tumu", lat |-> 10883, lng |-> (0 - 1983), region |-> "Upper West Region",
       population |-> 20000, nearestFacility |-> "Tumu District Hospital", nearestDistance_km |-> 0,
       missingSpecialties |-> <<"generalSurgery", "gynecologyAndObstetrics", "pediatrics", "ophthalmology", "emergencyMedicine">>,
       context |-> "Tumu: context"],
      [name |-> "Kete Krachi", lat |-> 7800, lng |-> (0 - 33), region |-> "Oti Region",
       population |-> 35000, nearestFacility |-> "Kete Krachi District Hospital", nearestDistance_km |-> 0,
       missingSpecialties |-> <<"generalSurgery", "ophthalmology", "radiology", "cardiology", "psychiatry">>,
       context |-> "Kete Krachi: context"]
    >>

\* d["name"].lower().replace(" ", "_")
DesertSlug(name) ==
    CASE name = "Bole District" -> "bole_district"
      [] name = "Damongo" -> "damongo"
      [] name = "Nalerigu" -> "nalerigu"
      [] name = "Nandom" -> "nandom"
      [] name = "Dambai" -> "dambai"
      [] name = "Kadjebi" -> "kadjebi"
      [] name = "Donkorkrom" -> "donkorkrom"
      [] name = "Enchi" -> "enchi"
      [] name = "Tumu" -> "tumu"
      [] name = "Kete Krachi" -> "kete_krachi"
      [] OTHER -> name

(***************************************************************************)
(* The external text-generation service and call_openai                    *)
(***************************************************************************)
\* A truthiness test that takes the empty key for a key (`is not None`).
KeySetAlways(key) == key = key

\* Truthiness of the key string: `if OPENAI_API_KEY:` / `if not OPENAI_API_KEY:`.
KeySet(key) == key # ""

\* What one request to the service can end in.  "ok" carries the text of
\* data["choices"][0]["message"]["content"]; the others are the failures of
\* the try block: urlopen raising (HTTP error, timeout), json.loads raising,
\* a response without choices/message/content, a content that is not a string.
FailureKinds == {"http_error", "timeout", "bad_json", "no_choices", "null_content"}

Ok(content) == [kind |-> "ok", content |-> content]
Failure(kind) == [kind |-> kind, content |-> <<>>]

\* A handler that catches the failures of urlopen only (`except URLError`).
CaughtKindsUrlOnly == {"http_error", "timeout"}

\* The classes `except Exception` catches.
CaughtKinds == FailureKinds

\* A call_openai that sends the request again after a failed attempt.
call_openai_retry(key, system_prompt, user_prompt, outcome) ==
    IF key = ""
    THEN [raised |-> FALSE, value |-> None, requests |-> 0]
    ELSE IF outcome.kind = "ok"
    THEN [raised |-> FALSE, value |-> Some(strip(outcome.content)), requests |-> 1]
    ELSE [raised |-> FALSE, value |-> None, requests |-> 2]

\* Returns [raised, value, requests]: whether an exception leaves the
\* function, the returned value (None or Some(text)), and the number of
\* requests sent.
call_openai(key, system_prompt, user_prompt, outcome) ==
    IF ~KeySet(key)
    THEN [raised |-> FALSE, value |-> None, requests |-> 0]
    ELSE IF outcome.kind = "ok"
    THEN [raised |-> FALSE, value |-> Some(strip(outcome.content)), requests |-> 1]
    ELSE IF outcome.kind \in CaughtKinds
    THEN [raised |-> FALSE, value |-> None, requests |-> 1]
    ELSE [raised |-> TRUE, value |-> None, requests |-> 1]

\* analysis.values(), concatenated: the facility categories in dict order.
FacilityFindings(analysis) ==
    analysis.basicLookups \o analysis.validation \o analysis.anomalyDetection
    \o analysis.serviceClassification \o analysis.workforceDistribution
    \o analysis.resourceGaps \o analysis.ngoAnalysis

DesertFindings(analysis) ==
    analysis.geospatial \o analysis.unmetNeeds \o analysis.ngoGaps

\* The "[FLAG] question: answer" lines of the user message.
PromptLines(findings) ==
    [i \in DOMAIN findings |->
        [flag |-> IF findings[i].flag = NoFlag THEN "INFO" ELSE findings[i].flag,
         question |-> findings[i].question, answer |-> findings[i].answer]]

ai_summarize_facility(key, f, analysis_findings, outcome) ==
    call_openai(key, "SYSTEM_PROMPT_FACILITY",
                [facility |-> f.name, city |-> f.city, region |-> f.region,
                 beds |-> f.bedCapacity, doctors |-> f.numDoctors,
                 specialties |-> Take(f.specialties, 15),
                 equipment |-> Take(f.equipment, 10),
                 capabilities |-> Take(f.capabilities, 6),
                 lines |-> PromptLines(FacilityFindings(analysis_findings))],
                outcome)

ai_summarize_desert(key, d, analysis_findings, outcome) ==
    call_openai(key, "SYSTEM_PROMPT_DESERT",
                [desert |-> d.name, region |-> d.region, population |-> d.population,
                 nearest |-> d.nearestFacility, km |-> d.nearestDistance_km,
                 missing |-> d.missingSpecialties, context |-> d.context,
                 lines |-> PromptLines(DesertFindings(analysis_findings))],
                outcome)

(***************************************************************************)
(* main: the pieces of one iteration                                       *)
(***************************************************************************)
CountFlag(findings, flag) == Len(SelectSeq(findings, LAMBDA fi : fi.flag = flag))

RECURSIVE SortedIds(_)
SortedIds(S) ==
    IF S = {} THEN <<>>
    ELSE LET m == CHOOSE x \in S : \A y \in S : x <= y
         IN  <<m>> \o SortedIds(S \ {m})

\* The rows of the CSV in file order.
RowList(rows) == [i \in DOMAIN SortedIds(DOMAIN rows) |-> rows[SortedIds(DOMAIN rows)[i]]]

\* by_region.get(region, []) and by_city.get(city, []): only clean, non-empty
\* keys are in the index.
by_region(rows, region) ==
    IF region = <<>> THEN <<>>
    ELSE SelectSeq(RowList(rows), LAMBDA r : clean(r.address_stateOrRegion) = region)

by_city(rows, city) ==
    IF city = <<>> THEN <<>>
    ELSE SelectSeq(RowList(rows), LAMBDA r : clean(r.address_city) = city)

RegionRows(rows, f) ==
    IF by_region(rows, f.region) # <<>> THEN by_region(rows, f.region)
    ELSE by_city(rows, f.city)

\* A facility analysis that also carries a (never filled) geospatial entry.
FacilityAnalysisWithGeospatial(f, region_rows) ==
    [basicLookups |-> analyze_basic_lookups(f, region_rows),
     geospatial |-> <<>>,
     validation |-> analyze_validation(f),
     anomalyDetection |-> analyze_anomalies(f),
     serviceClassification |-> analyze_service_classification(f),
     workforceDistribution |-> analyze_workforce(f),
     resourceGaps |-> analyze_resource_gaps(f, region_rows),
     ngoAnalysis |-> analyze_ngo(f)]

FacilityAnalysis(f, region_rows) ==
    [basicLookups |-> analyze_basic_lookups(f, region_rows),
     validation |-> analyze_validation(f),
     anomalyDetection |-> analyze_anomalies(f),
     serviceClassification |-> analyze_service_classification(f),
     workforceDistribution |-> analyze_workforce(f),
     resourceGaps |-> analyze_resource_gaps(f, region_rows),
     ngoAnalysis |-> analyze_ngo(f)]

DesertAnalysis(d, facilities) ==
    [geospatial |-> analyze_desert_geospatial(d, facilities),
     unmetNeeds |-> analyze_desert_unmet_needs(d),
     ngoGaps |-> analyze_desert_ngo_gaps(d, facilities)]

\* A warning count that counts the alerts again.
FacilityWarningsAsAlerts(analysis) == CountFlag(FacilityFindings(analysis), "alert")

FacilityAlerts(analysis) == CountFlag(FacilityFindings(analysis), "alert")

FacilityWarnings(analysis) == CountFlag(FacilityFindings(analysis), "warning")

DesertAlerts(analysis) == CountFlag(DesertFindings(analysis), "alert")

\* A facility record that counts a missing summary as one more alert.
FacilityRecordCountingSummary(sel, f, analysis, ai_summary, alerts, warnings) ==
    [id |-> [prefix |-> "facility_", n |-> sel[1]],
     type |-> "facility",
     lat |-> sel[2], lng |-> sel[3],
     name |-> f.name,
     city |-> f.city,
     region |-> f.region,
     facilityType |-> f.facilityType,
     specialties |-> f.specialties,
     equipment |-> f.equipment,
     capabilities |-> Take(f.capabilities, 8),
     numDoctors |-> f.numDoctors,
     bedCapacity |-> f.bedCapacity,
     analysis |-> analysis,
     aiSummary |-> ai_summary,
     alertCount |-> IF ai_summary = None THEN alerts + 1 ELSE alerts,
     warningCount |-> warnings,
     citation |-> [csvRow |-> f.csvRow, source |-> f.sourceUrl,
                   fields_used |-> <<"specialties", "procedure", "equipment",
                                     "capability", "description",
                                     "organizationDescription", "numberDoctors",
                                     "capacity">>]]

FacilityRecord(sel, f, analysis, ai_summary, alerts, warnings) ==
    [id |-> [prefix |-> "facility_", n |-> sel[1]],
     type |-> "facility",
     lat |-> sel[2], lng |-> sel[3],
     name |-> f.name,
     city |-> f.city,
     region |-> f.region,
     facilityType |-> f.facilityType,
     specialties |-> f.specialties,
     equipment |-> f.equipment,
     capabilities |-> Take(f.capabilities, 8),
     numDoctors |-> f.numDoctors,
     bedCapacity |-> f.bedCapacity,
     analysis |-> analysis,
     aiSummary |-> ai_summary,
     alertCount |-> alerts,
     warningCount |-> warnings,
     citation |-> [csvRow |-> f.csvRow, source |-> f.sourceUrl,
                   fields_used |-> <<"specialties", "procedure", "equipment",
                                     "capability", "description",
                                     "organizationDescription", "numberDoctors",
                                     "capacity">>]]

DesertRecord(d, severity, analysis, ai_summary, recommendations, alerts) ==
    [id |-> [prefix |-> "desert_", n |-> DesertSlug(d.name)],
     type |-> "desert",
     lat |-> d.lat, lng |-> d.lng,
     name |-> d.name,
     region |-> d.region,
     population |-> d.population,
     nearestFacility |-> d.nearestFacility,
     nearestDistance_km |-> d.nearestDistance_km,
     missingSpecialties |-> d.missingSpecialties,
     context |-> d.context,
     severityScore |-> severity,
     analysis |-> analysis,
     aiSummary |-> ai_summary,
     recommendations |-> recommendations,
     alertCount |-> alerts]

Metadata(out, rows) ==
    [totalFacilities |-> Len(out.facilities),
     totalDeserts |-> Len(out.deserts),
     csvRowsAnalyzed |-> Cardinality(DOMAIN rows),
     totalAlerts |-> SumSeq([i \in DOMAIN out.facilities |-> out.facilities[i].alertCount])
                     + SumSeq([i \in DOMAIN out.deserts |-> out.deserts[i].alertCount]),
     totalWarnings |-> SumSeq([i \in DOMAIN out.facilities |-> out.facilities[i].warningCount]),
     questionCategories |->
         <<"Q1: Basic Queries & Lookups", "Q2: Geospatial Queries",
           "Q3: Validation & Verification",
           "Q4: Misrepresentation & Anomaly Detection",
           "Q5: Service Classification & Inference",
           "Q6: Workforce Distribution", "Q7: Resource Distribution & Gaps",
           "Q8: NGO & International Organization Analysis",
           "Q9: Unmet Needs & Demand Analysis">>,
     dataSource |-> "Virtue Foundation Ghana v0.3"]

(***************************************************************************)
(* Bounds and inputs of the model                                          *)
(***************************************************************************)
\* The run is modelled on a window of each table: NumSelections entries of
\* FACILITY_SELECTIONS from the fifth on, NumZones entries of DESERT_ZONES
\* from the seventh on (a facility within 100 km of a zone is among them).
NumSelections == 2
NumZones == 2

Selections == SubSeq(FACILITY_SELECTIONS, 5, 4 + NumSelections)
Zones == SubSeq(DESERT_ZONES, 7, 6 + NumZones)

\* The CSV is modelled by the rows the run reads: the selected rows and row 0.
RowIds == {Selections[i][1] : i \in DOMAIN Selections} \cup {0}

Cell(form, items) == [form |-> form, items |-> items]

BaseRow ==
    [name |-> <<"Health Centre">>, address_city |-> <<"Accra">>,
     address_stateOrRegion |-> <<"null">>, address_line1 |-> <<>>,
     facilityTypeId |-> <<"clinic">>, operatorTypeId |-> <<>>,
     specialties |-> Cell("null", <<>>), procedure |-> Cell("empty", <<>>),
     equipment |-> Cell("empty", <<>>), capability |-> Cell("empty", <<>>),
     description |-> <<>>, organizationDescription |-> <<>>,
     numberDoctors |-> <<"null">>, capacity |-> <<"0">>,
     source_url |-> <<"https://example.org/c">>,
     websites |-> Cell("brackets", <<>>), phone_numbers |-> Cell("empty", <<>>)]

\* A large hospital claiming many specialties, no equipment, no doctor count.
LargeHospitalRow ==
    [BaseRow EXCEPT
        !.name = <<"Regional Hospital">>,
        !.address_city = <<" ", "Accra", " ">>,
        !.address_stateOrRegion = <<"Greater Accra">>,
        !.facilityTypeId = <<"hospital">>,
        !.operatorTypeId = <<"public">>,
        !.specialties = Cell("json_list",
            <<"neurosurgery", "cardiology", "cardiacSurgery", "ophthalmology",
              "radiology", "orthopedicSurgery", "nephrology", "generalSurgery",
              "gynecologyAndObstetrics", "pediatrics", "emergencyMedicine",
              "dentistry", "psychiatry", "plasticSurgery", "urology", "oncology">>),
        !.equipment = Cell("brackets", <<>>),
        !.capability = Cell("json_list", <<"referral", "paid">>),
        !.description = <<"visiting consultant">>,
        !.organizationDescription = <<"NULL">>,
        !.numberDoctors = <<>>,
        !.capacity = <<"120">>]

\* A small NGO clinic with equipment, staff and round-the-clock service.
NgoClinicRow ==
    [BaseRow EXCEPT
        !.name = <<"Le Mete", "NGO">>,
        !.address_city = <<"Tamale">>,
        !.address_stateOrRegion = <<"Northern">>,
        !.operatorTypeId = <<"ngo">>,
        !.specialties = Cell("json_list", <<"ophthalmology", "", " cardiology ", " ">>),
        !.equipment = Cell("json_list", <<"X-ray", "Ultrasound", " ICU ">>),
        !.capability = Cell("json_list", <<"Outreach camp", "24/7">>),
        !.description = <<"medical mission">>,
        !.organizationDescription = <<"Foundation">>,
        !.numberDoctors = <<"4">>,
        !.capacity = <<" ", "30", " ">>]

\* A small facility claiming eleven specialties, its list cell not valid JSON.
OverclaimRow ==
    [BaseRow EXCEPT
        !.name = <<"Specialist Hospital">>,
        !.address_city = <<"Tamale">>,
        !.address_stateOrRegion = <<"Northern">>,
        !.facilityTypeId = <<"hospital">>,
        !.specialties = Cell("malformed",
            <<"cardiology", "ophthalmology", "radiology", "nephrology",
              "generalSurgery", "pediatrics", "dentistry", "psychiatry",
              "urology", "oncology", "neurology">>),
        !.equipment = Cell("json_scalar", <<"X-ray">>),
        !.capability = Cell("json_list", <<"emergency department", "24 hours">>),
        !.numberDoctors = <<"12">>,
        !.capacity = <<"49">>]

RowProfiles == {BaseRow, LargeHospitalRow, NgoClinicRow, OverclaimRow}

\* The CSV files of the model: any profile in each selected row; row 0 is
\* another facility of the Northern region or a sparse row.
CsvFiles ==
    {c \in [RowIds -> RowProfiles] : c[0] \in {BaseRow, OverclaimRow}}

\* The replies of the service: a text followed by white space.
Replies == {<<"T1", " ">>}
Outcomes == {Ok(c) : c \in Replies} \cup {Failure(k) : k \in FailureKinds}

(***************************************************************************)
(* main                                                                    *)
(***************************************************************************)
VARIABLES
    OPENAI_API_KEY, \* the environment's key, "" when unset
    csv,            \* the CSV file
    pc,             \* where main is
    rows,           \* list(csv.DictReader(f))
    output,         \* the output dict
    idx,            \* position in the loop being run
    cur,            \* the locals of the current iteration
    requests,       \* requests sent to the service so far
    sleeps,         \* time.sleep(0.5) calls so far
    outcome,        \* how the current record's request ended ("none": no request)
    written,        \* times the output file has been written
    file,           \* the output file: None or Some(contents)
    output2         \* the output dict of a second run (two-run specification)

vars == <<OPENAI_API_KEY, csv, pc, rows, output, idx, cur, requests, sleeps,
          outcome, written, file, output2>>

EmptyOutput == [facilities |-> <<>>, deserts |-> <<>>, metadata |-> <<>>]

NoLocals == [phase |-> "none"]

Init ==
    /\ OPENAI_API_KEY \in {"", "sk-key"}
    /\ csv \in CsvFiles
    /\ pc = "load"
    /\ rows = <<>>
    /\ output = EmptyOutput
    /\ idx = 0
    /\ cur = NoLocals
    /\ requests = 0
    /\ sleeps = 0
    /\ outcome = "none"
    /\ written = 0
    /\ file = None
    /\ output2 = EmptyOutput

\* A loop order that starts the desert zones before the last facility.
AfterFacilitiesEarly(n) ==
    IF n + 1 < Len(Selections) THEN "f_analyse"
    ELSE IF Len(Zones) > 0 THEN "d_analyse" ELSE "metadata"

\* Where the loops go after n facility records / m desert records.
AfterDeserts(m) == IF m < Len(Zones) THEN "d_analyse" ELSE "metadata"

AfterFacilities(n) == IF n < Len(Selections) THEN "f_analyse" ELSE AfterDeserts(0)

LoadCSV ==
    /\ pc = "load"
    /\ rows' = csv
    /\ output' = EmptyOutput
    /\ pc' = AfterFacilities(0)
    /\ UNCHANGED <<OPENAI_API_KEY, csv, idx, cur, requests, sleeps, outcome, written, file, output2>>

\* The locals of one facility iteration, up to the flag counts.
FacilityLocals(rws, i) ==
    LET sel == Selections[i]
        f == extract_facility(rws[sel[1]], sel[1])
        analysis == FacilityAnalysis(f, RegionRows(rws, f))
    IN  [phase |-> "facility", f |-> f, analysis |-> analysis,
         alerts |-> FacilityAlerts(analysis),
         warnings |-> FacilityWarnings(analysis),
         ai_summary |-> None]

FacilityAnalyse ==
    /\ pc = "f_analyse"
    /\ idx' = Len(output.facilities) + 1
    /\ cur' = FacilityLocals(rows, Len(output.facilities) + 1)
    /\ outcome' = "none"
    /\ pc' = "f_summary"
    /\ UNCHANGED <<OPENAI_API_KEY, csv, rows, output, requests, sleeps, written, file, output2>>

FacilityNoKey ==
    /\ pc = "f_summary"
    /\ ~KeySet(OPENAI_API_KEY)
    /\ pc' = "f_append"
    /\ UNCHANGED <<OPENAI_API_KEY, csv, rows, output, idx, cur, requests, sleeps,
                   outcome, written, file, output2>>

FacilityRequest ==
    /\ pc = "f_summary"
    /\ KeySet(OPENAI_API_KEY)
    /\ \E o \in Outcomes :
         LET r == ai_summarize_facility(OPENAI_API_KEY, cur.f, cur.analysis, o)
         IN  /\ requests' = requests + r.requests
             /\ outcome' = o.kind
             /\ cur' = [cur EXCEPT !.ai_summary = r.value]
             /\ pc' = IF r.raised THEN "crashed" ELSE "f_sleep"
    /\ UNCHANGED <<OPENAI_API_KEY, csv, rows, output, idx, sleeps, written, file, output2>>

FacilitySleep ==
    /\ pc = "f_sleep"
    /\ sleeps' = sleeps + 1
    /\ pc' = "f_append"
    /\ UNCHANGED <<OPENAI_API_KEY, csv, rows, output, idx, cur, requests, outcome,
                   written, file, output2>>

FacilityAppend ==
    /\ pc = "f_append"
    /\ output' = [output EXCEPT !.facilities =
                      Append(@, FacilityRecord(Selections[idx], cur.f, cur.analysis,
                                               cur.ai_summary, cur.alerts, cur.warnings))]
    /\ pc' = AfterFacilities(idx)
    /\ UNCHANGED <<OPENAI_API_KEY, csv, rows, idx, cur, requests, sleeps, outcome,
                   written, file, output2>>

\* The locals of one desert iteration, up to the alert count.
DesertLocals(facilities, j) ==
    LET d == Zones[j]
        analysis == DesertAnalysis(d, facilities)
    IN  [phase |-> "desert", d |-> d, severity |-> Severity(d),
         analysis |-> analysis,
         recommendations |-> generate_desert_recommendations(d),
         alerts |-> DesertAlerts(analysis),
         ai_summary |-> None]

DesertAnalyse ==
    /\ pc = "d_analyse"
    /\ idx' = Len(output.deserts) + 1
    /\ cur' = DesertLocals(output.facilities, Len(output.deserts) + 1)
    /\ outcome' = "none"
    /\ pc' = "d_summary"
    /\ UNCHANGED <<OPENAI_API_KEY, csv, rows, output, requests, sleeps, written, file, output2>>

DesertNoKey ==
    /\ pc = "d_summary"
    /\ ~KeySet(OPENAI_API_KEY)
    /\ pc' = "d_append"
    /\ UNCHANGED <<OPENAI_API_KEY, csv, rows, output, idx, cur, requests, sleeps,
                   outcome, written, file, output2>>

DesertRequest ==
    /\ pc = "d_summary"
    /\ KeySet(OPENAI_API_KEY)
    /\ \E o \in Outcomes :
         LET r == ai_summarize_desert(OPENAI_API_KEY, cur.d, cur.analysis, o)
         IN  /\ requests' = requests + r.requests
             /\ outcome' = o.kind
             /\ cur' = [cur EXCEPT !.ai_summary = r.value]
             /\ pc' = IF r.raised THEN "crashed" ELSE "d_sleep"
    /\ UNCHANGED <<OPENAI_API_KEY, csv, rows, output, idx, sleeps, written, file, output2>>

DesertSleep ==
    /\ pc = "d_sleep"
    /\ sleeps' = sleeps + 1
    /\ pc' = "d_append"
    /\ UNCHANGED <<OPENAI_API_KEY, csv, rows, output, idx, cur, requests, outcome,
                   written, file, output2>>

DesertAppend ==
    /\ pc = "d_append"
    /\ output' = [output EXCEPT !.deserts =
                      Append(@, DesertRecord(cur.d, cur.severity, cur.analysis,
                                             cur.ai_summary, cur.recommendations,
                                             cur.alerts))]
    /\ pc' = AfterDeserts(idx)
    /\ UNCHANGED <<OPENAI_API_KEY, csv, rows, idx, cur, requests, sleeps, outcome,
                   written, file, output2>>

ComputeMetadata ==
    /\ pc = "metadata"
    /\ output' = [output EXCEPT !.metadata = Metadata(output, rows)]
    /\ pc' = "write"
    /\ UNCHANGED <<OPENAI_API_KEY, csv, rows, idx, cur, requests, sleeps, outcome,
                   written, file, output2>>

WriteOutput ==
    /\ pc = "write"
    /\ file' = Some(output)
    /\ written' = written + 1
    /\ pc' = "done"
    /\ UNCHANGED <<OPENAI_API_KEY, csv, rows, output, idx, cur, requests, sleeps, outcome, output2>>

Next ==
    \/ LoadCSV
    \/ FacilityAnalyse
    \/ FacilityNoKey
    \/ FacilityRequest
    \/ FacilitySleep
    \/ FacilityAppend
    \/ DesertAnalyse
    \/ DesertNoKey
    \/ DesertRequest
    \/ DesertSleep
    \/ DesertAppend
    \/ ComputeMetadata
    \/ WriteOutput

Spec == Init /\ [][Next]_vars

(***************************************************************************)
(* Two runs over the same CSV and key, side by side: each step is one      *)
(* whole iteration of main in both runs, the service answering the two     *)
(* runs independently.                                                     *)
(***************************************************************************)
\* The CSV files of the two-run specification: one profile in all selected rows.
PairCsvFiles == {c \in CsvFiles : \A i, j \in DOMAIN Selections :
                                      c[Selections[i][1]] = c[Selections[j][1]]}

OutcomesA == {Ok(<<"T1">>), Failure("timeout")}
OutcomesB == {Ok(<<"T2", " ">>), Failure("bad_json")}

\* One iteration of the facility loop on the output `out`.
FacilityIteration(key, rws, out, o) ==
    LET i == Len(out.facilities) + 1
        loc == FacilityLocals(rws, i)
        ai == IF KeySet(key)
              THEN ai_summarize_facility(key, loc.f, loc.analysis, o).value
              ELSE None
    IN  [out EXCEPT !.facilities =
            Append(@, FacilityRecord(Selections[i], loc.f, loc.analysis, ai,
                                     loc.alerts, loc.warnings))]

\* One iteration of the desert loop on the output `out`.
DesertIteration(key, out, o) ==
    LET loc == DesertLocals(out.facilities, Len(out.deserts) + 1)
        ai == IF KeySet(key)
              THEN ai_summarize_desert(key, loc.d, loc.analysis, o).value
              ELSE None
    IN  [out EXCEPT !.deserts =
            Append(@, DesertRecord(loc.d, loc.severity, loc.analysis, ai,
                                   loc.recommendations, loc.alerts))]

PairInit ==
    /\ OPENAI_API_KEY \in {"", "sk-key"}
    /\ csv \in PairCsvFiles
    /\ pc = "load"
    /\ rows = <<>>
    /\ output = EmptyOutput
    /\ idx = 0
    /\ cur = NoLocals
    /\ requests = 0
    /\ sleeps = 0
    /\ outcome = "none"
    /\ written = 0
    /\ file = None
    /\ output2 = EmptyOutput

PairFacility ==
    /\ pc = "f_analyse"
    /\ \E oA \in OutcomesA, oB \in OutcomesB :
          /\ output' = FacilityIteration(OPENAI_API_KEY, rows, output, oA)
          /\ output2' = FacilityIteration(OPENAI_API_KEY, rows, output2, oB)
    /\ pc' = AfterFacilities(Len(output.facilities) + 1)
    /\ UNCHANGED <<OPENAI_API_KEY, csv, rows, idx, cur, requests, sleeps, outcome,
                   written, file>>

PairDesert ==
    /\ pc = "d_analyse"
    /\ \E oA \in OutcomesA, oB \in OutcomesB :
          /\ output' = DesertIteration(OPENAI_API_KEY, output, oA)
          /\ output2' = DesertIteration(OPENAI_API_KEY, output2, oB)
    /\ pc' = AfterDeserts(Len(output.deserts) + 1)
    /\ UNCHANGED <<OPENAI_API_KEY, csv, rows, idx, cur, requests, sleeps, outcome,
                   written, file>>

PairMetadata ==
    /\ pc = "metadata"
    /\ output' = [output EXCEPT !.metadata = Metadata(output, rows)]
    /\ output2' = [output2 EXCEPT !.metadata = Metadata(output2, rows)]
    /\ pc' = "done"
    /\ UNCHANGED <<OPENAI_API_KEY, csv, rows, idx, cur, requests, sleeps, outcome,
                   written, file>>

PairNext ==
    \/ LoadCSV
    \/ PairFacility
    \/ PairDesert
    \/ PairMetadata

SpecPair == PairInit /\ [][PairNext]_vars

(***************************************************************************)
(* The severity score as a function of the zone                            *)
(***************************************************************************)
\* The longest list of missing specialties tried.
MaxMissing == 4

SevDistances == {0 - 5, 0, 1, 50, 51, 100, 101, 148}
SevPopulations == {0, 20000, 20001, 40000, 40001, 61593}
SevSpecialties == <<"generalSurgery", "pediatrics", "ophthalmology", "radiology",
                    "emergencyMedicine", "cardiology", "oncology", "psychiatry">>

ZoneWith(km, pop, n) ==
    [DESERT_ZONES[1] EXCEPT !.nearestDistance_km = km, !.population = pop,
                            !.missingSpecialties = Take(SevSpecialties, n)]

SevZones ==
    {ZoneWith(km, pop, n) : km \in SevDistances, pop \in SevPopulations, n \in 0..MaxMissing}
    \cup Range(DESERT_ZONES)

SevInit ==
    /\ OPENAI_API_KEY = ""
    /\ csv = <<>>
    /\ pc = "sev_input"
    /\ rows = <<>>
    /\ output = EmptyOutput
    /\ idx = 0
    /\ \E d1 \in SevZones, d2 \in SevZones :
          cur = [phase |-> "severity", d1 |-> d1, d2 |-> d2, s1 |-> 0, s2 |-> 0]
    /\ requests = 0
    /\ sleeps = 0
    /\ outcome = "none"
    /\ written = 0
    /\ file = None
    /\ output2 = EmptyOutput

SevApply ==
    /\ pc = "sev_input"
    /\ cur' = [cur EXCEPT !.s1 = Severity(cur.d1), !.s2 = Severity(cur.d2)]
    /\ pc' = "sev_done"
    /\ UNCHANGED <<OPENAI_API_KEY, csv, rows, output, idx, requests, sleeps, outcome,
                   written, file, output2>>

SevNext == SevApply

SpecSeverity == SevInit /\ [][SevNext]_vars

(***************************************************************************)
(* analyze_anomalies and analyze_workforce as functions of the CSV row     *)
(***************************************************************************)
\* The longest list of specialties tried.
MaxSpecialties == 16

AnaCapacities ==
    {<<>>, <<" ">>, <<"null">>, <<"0">>, <<"-3">>, <<"1">>, <<"49">>, <<"50">>,
     <<"100">>, <<" ", "120">>}
AnaDoctors == {<<>>, <<"NULL">>, <<"0">>, <<"-3">>, <<"1">>, <<"4">>, <<"12">>}

\* Specialty lists: without a complex specialty, and led by one.
PlainSpecialties ==
    <<"cardiology", "ophthalmology", "radiology", "orthopedicSurgery", "nephrology",
      "generalSurgery", "gynecologyAndObstetrics", "pediatrics", "emergencyMedicine",
      "dentistry", "psychiatry", "urology", "oncology", "neonatology", "neurology",
      "internalMedicine", "familyMedicine", "cardiology">>
ComplexSpecialties == <<"neurosurgery">> \o PlainSpecialties
AnaSpecialties ==
    {Take(base, n) : base \in {PlainSpecialties, ComplexSpecialties}, n \in 0..MaxSpecialties}

AnaRows ==
    {[BaseRow EXCEPT !.capacity = cap, !.numberDoctors = docs,
                     !.specialties = Cell("json_list", specs),
                     !.equipment = equip, !.capability = capab,
                     !.description = desc] :
        cap \in AnaCapacities, docs \in AnaDoctors, specs \in AnaSpecialties,
        equip \in {Cell("brackets", <<>>), Cell("json_list", <<"X-ray">>)},
        capab \in {Cell("empty", <<>>), Cell("json_list", <<"emergency department">>)},
        desc \in {<<>>, <<"visiting consultant">>}}

AnaInit ==
    /\ OPENAI_API_KEY = ""
    /\ csv \in [{0} -> AnaRows]
    /\ pc = "ana_input"
    /\ rows = <<>>
    /\ output = EmptyOutput
    /\ idx = 0
    /\ cur = NoLocals
    /\ requests = 0
    /\ sleeps = 0
    /\ outcome = "none"
    /\ written = 0
    /\ file = None
    /\ output2 = EmptyOutput

\* f = extract_facility(rows[idx], idx)
AnaExtract ==
    /\ pc = "ana_input"
    /\ cur' = [phase |-> "analysers", f |-> extract_facility(csv[idx], idx),
               anomalies |-> <<>>, workforce |-> <<>>]
    /\ pc' = "ana_extracted"
    /\ UNCHANGED <<OPENAI_API_KEY, csv, rows, output, idx, requests, sleeps, outcome,
                   written, file, output2>>

\* analyze_anomalies(f)
AnaAnomalies ==
    /\ pc = "ana_extracted"
    /\ LET r == analyze_anomalies(cur.f)
       IN  /\ cur' = [cur EXCEPT !.anomalies = r]
           /\ pc' = IF IsRaised(r) THEN "ana_raised" ELSE "ana_anomalies"
    /\ UNCHANGED <<OPENAI_API_KEY, csv, rows, output, idx, requests, sleeps, outcome,
                   written, file, output2>>

\* analyze_workforce(f)
AnaWorkforce ==
    /\ pc = "ana_anomalies"
    /\ LET r == analyze_workforce(cur.f)
       IN  /\ cur' = [cur EXCEPT !.workforce = r]
           /\ pc' = IF IsRaised(r) THEN "ana_raised" ELSE "ana_done"
    /\ UNCHANGED <<OPENAI_API_KEY, csv, rows, output, idx, requests, sleeps, outcome,
                   written, file, output2>>

AnaNext == AnaExtract \/ AnaAnomalies \/ AnaWorkforce

SpecAnalysers == AnaInit /\ [][AnaNext]_vars

(***************************************************************************)
(* Properties of the run                                                   *)
(***************************************************************************)
\* The findings of a record flagged `flag`, over all categories of its
\* analysis: the (category, position) pairs that carry the flag.
FlaggedIn(rec, flag) ==
    Cardinality(UNION {{<<k, i>> : i \in {x \in DOMAIN rec.analysis[k] :
                                            rec.analysis[k][x].flag = flag}} :
                       k \in DOMAIN rec.analysis})

Records == output.facilities \o output.deserts

SummaryPcs == {"f_sleep", "f_append", "d_sleep", "d_append"}

\* The keys of the nine question categories.
NineCategories ==
    {"basicLookups", "geospatial", "validation", "anomalyDetection",
     "serviceClassification", "workforceDistribution", "resourceGaps",
     "ngoAnalysis", "unmetNeeds"}

FacilityCategories ==
    {"basicLookups", "validation", "anomalyDetection", "serviceClassification",
     "workforceDistribution", "resourceGaps", "ngoAnalysis"}

DesertCategories == {"geospatial", "unmetNeeds", "ngoGaps"}

\* C1, as stated: the analysis of every facility record has an entry for each
\* of the nine categories.
C1_NineCategoriesPerFacility ==
    \A i \in DOMAIN output.facilities :
        NineCategories \subseteq DOMAIN output.facilities[i].analysis

\* C1, amended: the analysis of every facility record has exactly the seven
\* facility categories (no geospatial and no unmetNeeds entry), the analysis
\* of every desert record has exactly geospatial, unmetNeeds and ngoGaps, and
\* the two kinds of record together cover the nine categories.
C1_CategoriesByRecordKind ==
    /\ \A i \in DOMAIN output.facilities :
           DOMAIN output.facilities[i].analysis = FacilityCategories
    /\ \A j \in DOMAIN output.deserts :
           DOMAIN output.deserts[j].analysis = DesertCategories
    /\ NineCategories \subseteq FacilityCategories \cup DesertCategories

C1_Witness ==
    /\ pc = "done"
    /\ Len(output.facilities) > 0
    /\ Len(output.deserts) > 0

\* C2: with an empty OPENAI_API_KEY no request is ever sent, every record
\* written so far has aiSummary null, and the finished run has written every
\* facility and desert record with the findings computed from the CSV.
C2_NoKeyNoRequest ==
    OPENAI_API_KEY = "" =>
        /\ requests = 0
        /\ sleeps = 0
        /\ \A i \in DOMAIN Records : Records[i].aiSummary = None
        /\ pc = "done" =>
              /\ file = Some(output)
              /\ Len(output.facilities) = Len(Selections)
              /\ Len(output.deserts) = Len(Zones)
              /\ \A i \in DOMAIN output.facilities :
                    LET f == extract_facility(csv[Selections[i][1]], Selections[i][1])
                    IN  output.facilities[i].analysis
                            = FacilityAnalysis(f, RegionRows(csv, f))
              /\ \A j \in DOMAIN output.deserts :
                    output.deserts[j].analysis
                        = DesertAnalysis(Zones[j], output.facilities)

C2_Witness ==
    /\ OPENAI_API_KEY = ""
    /\ pc = "done"
    /\ written = 1
    /\ \E i \in DOMAIN output.facilities : output.facilities[i].alertCount > 0

\* C3: a failed request or an unexpected response never raises out of
\* call_openai: the run never crashes, the failed call's result is None, the
\* record of that iteration is appended with aiSummary null, and the run goes
\* on to the sleep, the append and the next record; the finished run has
\* written the output file.
C3_FailureYieldsNone ==
    /\ pc # "crashed"
    /\ (outcome \in FailureKinds /\ pc \in SummaryPcs) => cur.ai_summary = None
    /\ (outcome \in FailureKinds /\ cur.phase = "facility"
            /\ Len(output.facilities) = idx /\ Len(output.deserts) = 0)
          => output.facilities[idx].aiSummary = None
    /\ (outcome \in FailureKinds /\ cur.phase = "desert" /\ Len(output.deserts) = idx)
          => output.deserts[idx].aiSummary = None
    /\ outcome \in FailureKinds
          => pc \in SummaryPcs \cup {"f_analyse", "d_analyse", "metadata", "write", "done"}
    /\ pc = "done" => (written = 1 /\ file = Some(output))

C3_Witness ==
    /\ pc = "done"
    /\ outcome = "null_content"
    /\ output.deserts[Len(output.deserts)].aiSummary = None
    /\ \E i \in DOMAIN output.facilities : output.facilities[i].aiSummary # None

\* C4: with a key set, the requests sent and the sleeps taken both equal the
\* number of records appended, plus the one of the iteration under way: one
\* request per record whatever its outcome, then one sleep, then the append.
C4_OneRequestOneSleep ==
    OPENAI_API_KEY # "" =>
        LET n == Len(output.facilities) + Len(output.deserts)
        IN  /\ requests = n + (IF pc \in SummaryPcs THEN 1 ELSE 0)
            /\ sleeps = n + (IF pc \in {"f_append", "d_append"} THEN 1 ELSE 0)
            /\ pc \in {"f_sleep", "d_sleep"} => requests = sleeps + 1
            /\ pc = "done" => requests = Len(Selections) + Len(Zones)

C4_Witness ==
    /\ OPENAI_API_KEY # ""
    /\ pc = "done"
    /\ outcome \in FailureKinds
    /\ requests = Len(Selections) + Len(Zones)
    /\ sleeps = requests
    /\ \E i \in DOMAIN output.facilities : output.facilities[i].aiSummary = None

\* C7: the run is one pass in a fixed order: the CSV is loaded before
\* anything else; the facility records are those of the selections, in list
\* order; no desert zone is analysed before every facility record is
\* appended, so each desert analysis is the one of the complete facility
\* list; the desert records are those of the zones, in list order; metadata
\* is computed after the last record; the file is written once, last.
C7_SinglePassInOrder ==
    /\ pc = "load" => (rows = <<>> /\ output = EmptyOutput)
    /\ pc # "load" => rows = csv
    /\ Len(output.facilities) <= Len(Selections)
    /\ \A i \in DOMAIN output.facilities :
           /\ output.facilities[i].id.n = Selections[i][1]
           /\ output.facilities[i].lat = Selections[i][2]
           /\ output.facilities[i].lng = Selections[i][3]
    /\ (pc \in {"d_analyse", "d_summary", "d_sleep", "d_append"} \/ Len(output.deserts) > 0)
          => Len(output.facilities) = Len(Selections)
    /\ pc \in {"d_summary", "d_sleep", "d_append"}
          => cur.analysis = DesertAnalysis(Zones[idx], output.facilities)
    /\ Len(output.deserts) <= Len(Zones)
    /\ \A j \in DOMAIN output.deserts :
           /\ output.deserts[j].name = Zones[j].name
           /\ output.deserts[j].analysis = DesertAnalysis(Zones[j], output.facilities)
    /\ output.metadata # <<>>
          => /\ pc \in {"write", "done"}
             /\ Len(output.facilities) = Len(Selections)
             /\ Len(output.deserts) = Len(Zones)
             /\ output.metadata.totalFacilities = Len(Selections)
             /\ output.metadata.totalDeserts = Len(Zones)
    /\ pc \in {"write", "done"} => output.metadata # <<>>
    /\ written = (IF pc = "done" THEN 1 ELSE 0)
    /\ file = (IF pc = "done" THEN Some(output) ELSE None)

C7_Witness ==
    /\ pc = "done"
    /\ written = 1
    /\ Len(output.facilities) = Len(Selections)
    /\ Len(output.deserts) = Len(Zones)
    /\ Len(Selections) > 1
    /\ Len(Zones) > 1

\* C9: in every record alertCount is the number of findings flagged 'alert'
\* over all categories of its analysis, and in every facility record
\* warningCount is the number of findings flagged 'warning'.
C9_CountsMatchFlags ==
    /\ \A i \in DOMAIN output.facilities :
           /\ output.facilities[i].alertCount = FlaggedIn(output.facilities[i], "alert")
           /\ output.facilities[i].warningCount = FlaggedIn(output.facilities[i], "warning")
    /\ \A j \in DOMAIN output.deserts :
           output.deserts[j].alertCount = FlaggedIn(output.deserts[j], "alert")

C9_Witness ==
    /\ \E i \in DOMAIN output.facilities :
           /\ output.facilities[i].alertCount > 0
           /\ output.facilities[i].warningCount > output.facilities[i].alertCount
    /\ \E j \in DOMAIN output.deserts : output.deserts[j].alertCount = 2

\* C10: once metadata is computed, totalAlerts is the number of findings
\* flagged 'alert' in all records, totalWarnings the number flagged 'warning'
\* in all records (desert records included), and totalFacilities and
\* totalDeserts are the lengths of the two lists.
C10_MetadataTotals ==
    output.metadata # <<>> =>
        /\ output.metadata.totalAlerts
               = SumSeq([i \in DOMAIN Records |-> FlaggedIn(Records[i], "alert")])
        /\ output.metadata.totalWarnings
               = SumSeq([i \in DOMAIN Records |-> FlaggedIn(Records[i], "warning")])
        /\ output.metadata.totalFacilities = Len(output.facilities)
        /\ output.metadata.totalDeserts = Len(output.deserts)

C10_Witness ==
    /\ pc = "done"
    /\ output.metadata.totalWarnings > 0
    /\ output.metadata.totalAlerts > 2 * Len(output.deserts)
    /\ \E j \in DOMAIN output.deserts : output.deserts[j].alertCount = 2

\* An output with every aiSummary blanked.
WithoutSummaries(out) ==
    [out EXCEPT
        !.facilities = [i \in DOMAIN @ |-> [@[i] EXCEPT !.aiSummary = None]],
        !.deserts = [j \in DOMAIN @ |-> [@[j] EXCEPT !.aiSummary = None]]]

\* C5: two runs over the same CSV with the same key, whatever the service
\* answers to each, agree at every step on everything but the aiSummary
\* fields: findings, alertCount, warningCount, severityScore,
\* recommendations and metadata.
C5_RepliesOnlyReachSummaries ==
    WithoutSummaries(output) = WithoutSummaries(output2)

C5_Witness ==
    /\ pc = "done"
    /\ output.metadata # <<>>
    /\ \E i \in DOMAIN output.facilities :
           /\ output.facilities[i].aiSummary = Some(<<"T1">>)
           /\ output2.facilities[i].aiSummary = None
    /\ \E j \in DOMAIN output.deserts :
           /\ output.deserts[j].aiSummary = Some(<<"T1">>)
           /\ output2.deserts[j].aiSummary = Some(<<"T2">>)
    /\ \E j \in DOMAIN output.deserts : output.deserts[j].analysis.ngoGaps[1].flag = NoFlag

\* The score the claim gives: 2, plus the number of thresholds 0, 50, 100 the
\* distance exceeds, plus the missing specialties up to three, plus the
\* number of thresholds 20000, 40000 the population exceeds, at most 10.
ClaimedSeverity(d) ==
    Min(10, 2 + Cardinality({t \in {0, 50, 100} : d.nearestDistance_km > t})
              + Min(Len(d.missingSpecialties), 3)
              + Cardinality({t \in {20000, 40000} : d.population > t}))

\* d2 is at least d1 in distance, population and number of missing specialties.
ZoneGrows(d1, d2) ==
    /\ d1.nearestDistance_km <= d2.nearestDistance_km
    /\ d1.population <= d2.population
    /\ Len(d1.missingSpecialties) <= Len(d2.missingSpecialties)

\* C8: the severity of a zone is the claimed score, an integer from 2 to 10,
\* and it does not decrease when the distance, the population or the number
\* of missing specialties grows.
C8_SeverityScore ==
    pc = "sev_done" =>
        /\ cur.s1 = ClaimedSeverity(cur.d1)
        /\ cur.s1 \in 2..10
        /\ ZoneGrows(cur.d1, cur.d2) => cur.s1 <= cur.s2

C8_Witness ==
    /\ pc = "sev_done"
    /\ ZoneGrows(cur.d1, cur.d2)
    /\ cur.d1 \in Range(DESERT_ZONES)
    /\ cur.s1 = 6
    /\ cur.s2 = 10

(***************************************************************************)
(* Properties of analyze_anomalies and analyze_workforce                   *)
(***************************************************************************)
\* The findings of a list whose question has the given text.
Asking(findings, text) == SelectSeq(findings, LAMBDA x : x.question.text = text)

Q4RuleQuestions ==
    {"Q4.4: Are the claimed procedures realistic for this facility size?",
     "Q4.7: Do facility characteristics correlate as expected?",
     "Q4.8: Is the breadth of procedures supported by infrastructure?",
     "Q4.9: Are there contradictory signals?"}

AnomaliesReturned == pc \in {"ana_anomalies", "ana_done"}

\* A rule of Q4.4, Q4.7, Q4.8, Q4.9 fired: its finding is in the list.
Q4RuleFired(findings) ==
    \E i \in DOMAIN findings : findings[i].question.text \in Q4RuleQuestions

\* C11: analyze_anomalies raises nothing and returns at least one finding;
\* what it returns is the one 'Q4: Anomaly Detection Summary' finding flagged
\* 'ok' exactly when no rule of Q4.4, Q4.7, Q4.8, Q4.9 fired, and a list
\* holding the 'ok' summary holds no finding flagged 'alert' or 'warning'.
C11_SummaryIffNoRuleFired ==
    /\ pc = "ana_extracted" => ~IsRaised(analyze_anomalies(cur.f))
    /\ AnomaliesReturned =>
        LET r == cur.anomalies
            summaries == Asking(r, "Q4: Anomaly Detection Summary")
        IN  /\ Len(r) >= 1
            /\ \A i \in DOMAIN r :
                   r[i].question.text \in Q4RuleQuestions \cup {"Q4: Anomaly Detection Summary"}
            /\ (r = <<Q4Summary>>) <=> ~Q4RuleFired(r)
            /\ \A i \in DOMAIN summaries : summaries[i].flag = "ok"
            /\ summaries # <<>> =>
                   \A i \in DOMAIN r : r[i].flag \notin {"alert", "warning"}
            /\ \A i \in DOMAIN r : r[i].flag = "ok" => r[i] = Q4Summary

\* The summary alone, for a facility with 50 beds claiming sixteen
\* specialties, none of them complex, and no doctor count.
C11_Witness ==
    /\ AnomaliesReturned
    /\ cur.anomalies = <<Q4Summary>>
    /\ cur.f.bedCapacity = Some(50)
    /\ Len(cur.f.specialties) = 16
    /\ cur.f.numDoctors = None
    /\ cur.f.equipment = <<>>

\* The bed capacity is not reported: the cell is missing or it is 0.
NoBedCapacity(f) == f.bedCapacity = None \/ f.bedCapacity = Some(0)

\* C12: Q4.4 gives at most one finding; it is an 'alert' exactly when a bed
\* capacity is reported, is below 50 and more than 10 specialties are
\* claimed, and a 'warning' exactly when no bed capacity is reported (missing
\* or 0) and more than 15 specialties are claimed; with 50 beds or more there
\* is no Q4.4 finding.  A capacity cell that is empty, blank or 'null' is a
\* missing capacity.
C12_Q44ByBedsAndSpecialties ==
    AnomaliesReturned =>
        LET f == cur.f
            n == Len(f.specialties)
            q44 == Asking(cur.anomalies,
                          "Q4.4: Are the claimed procedures realistic for this facility size?")
            alert == \E i \in DOMAIN q44 : q44[i].flag = "alert"
            warning == \E i \in DOMAIN q44 : q44[i].flag = "warning"
        IN  /\ Len(q44) <= 1
            /\ \A i \in DOMAIN q44 : q44[i].flag \in {"alert", "warning"}
            /\ alert <=> (~NoBedCapacity(f) /\ f.bedCapacity[1] < 50 /\ n > 10)
            /\ warning <=> (NoBedCapacity(f) /\ n > 15)
            /\ (f.bedCapacity # None /\ f.bedCapacity[1] >= 50) => q44 = <<>>
            /\ (f.bedCapacity = None) <=>
                   (strip(csv[idx].capacity) = <<>> \/ csv[idx].capacity = <<"null">>)

\* A capacity of 0 with sixteen specialties: the warning, and no alert.
C12_Witness ==
    /\ AnomaliesReturned
    /\ cur.f.bedCapacity = Some(0)
    /\ Len(cur.f.specialties) = 16
    /\ \E i \in DOMAIN cur.anomalies :
           /\ cur.anomalies[i].question.text =
                  "Q4.4: Are the claimed procedures realistic for this facility size?"
           /\ cur.anomalies[i].flag = "warning"

\* C13: analyze_workforce raises nothing, ZeroDivisionError included, and
\* returns exactly one Q6.1 finding; the finding gives the ratio
\* bedCapacity // numDoctors exactly when numDoctors > 0 and bedCapacity is
\* reported and not 0, and a missing or zero doctor count gives the
\* 'No doctor count reported' warning.
C13_OneQ61NoDivisionByZero ==
    /\ pc # "ana_raised"
    /\ pc = "ana_anomalies" => ~IsRaised(analyze_workforce(cur.f))
    /\ pc = "ana_done" =>
        LET f == cur.f
            docs == f.numDoctors
            beds == f.bedCapacity
            q61 == Asking(cur.workforce, "Q6.1: What is the known workforce at this facility?")
            nums == q61[1].answer.nums
        IN  /\ Len(q61) = 1
            /\ cur.workforce[1] = q61[1]
            /\ (Len(nums) = 3) <=>
                   (docs # None /\ docs[1] > 0 /\ beds # None /\ beds[1] # 0)
            /\ Len(nums) = 3 =>
                   /\ nums[1] = docs[1]
                   /\ nums[2] = beds[1]
                   /\ nums[3] * docs[1] <= beds[1]
                   /\ beds[1] < (nums[3] + 1) * docs[1]
            /\ (docs = None \/ docs = Some(0)) <=>
                   /\ q61[1].answer.text = "No doctor count reported."
                   /\ q61[1].flag = "warning"

\* A doctor count of 0 with 100 beds: the warning, and no ratio.
C13_Witness ==
    /\ pc = "ana_done"
    /\ cur.f.numDoctors = Some(0)
    /\ cur.f.bedCapacity = Some(100)
    /\ cur.workforce[1].answer.text = "No doctor count reported."
    /\ Len(cur.workforce) = 2

====
